---- MODULE Spec2Model ----
(***************************************************************************)
(* A state-machine model of the cash-journal application in src/app.py:    *)
(* the four tables (user, invite_token, category, operation), the clock,   *)
(* and one action per request handler.  A request's session cookie, query  *)
(* string and form are inputs of the action; the last response is kept in  *)
(* resp so that what a handler answers can be stated.                      *)
(*                                                                         *)
(* Encoding of values:                                                     *)
(*   - a text value whose characters matter (an e-mail, a category name)   *)
(*     is a sequence of one-character strings, so strip() and lower() are  *)
(*     computed; other text values are TLA+ strings;                       *)
(*   - a numeric or date form field is << >> when the field is blank and   *)
(*     <<v>> when it holds the well-formed value v; a key the request     *)
(*     does not send is not in the DOMAIN of the form;                     *)
(*   - a nullable column is << >> for NULL and <<v>> for the value v;      *)
(*   - money is counted in cents (Decimal with two fraction digits);       *)
(*   - a date is a day number >= 1; day 0 stands for a string strptime     *)
(*     rejects; datetimes are counted in days too.                         *)
(***************************************************************************)
EXTENDS Integers, Sequences, FiniteSets, TLC

VARIABLES
    users,     \* table user: sequence of rows, the id is the index
    invites,   \* table invite_token: sequence of rows, the id is the index
    cats,      \* table category: function id -> name
    ops,       \* table operation: function id -> row
    now,       \* the clock read by datetime.utcnow() and date.today()
    resp,      \* the response to the last request
    redeemed   \* history: issued token -> number of users created presenting it

vars == <<users, invites, cats, ops, now, resp, redeemed>>

(***************************************************************************)
(* Bounds of the model.                                                    *)
(***************************************************************************)
MaxUsers == 3
MaxInvites == 1
MaxNow == 9
MaxOps == 2
MaxCats == 2

\* timedelta(days=7) in admin_invite_create
InviteDays == 7

(***************************************************************************)
(* Generic helpers.                                                        *)
(***************************************************************************)
NULL == << >>
Some(v) == <<v>>

RECURSIVE SetMax(_)
SetMax(S) ==
    IF S = {} THEN 0
    ELSE LET x == CHOOSE y \in S : TRUE
             m == SetMax(S \ {x})
         IN IF x > m THEN x ELSE m

\* sqlite INTEGER PRIMARY KEY: the new rowid is the largest one in use plus 1
NextId(table) == SetMax(DOMAIN table) + 1

\* request.form.get(k) / request.args.get(k, default)
Get(form, k, default) == IF k \in DOMAIN form THEN form[k] ELSE default

\* str.strip() on a sequence of characters
RECURSIVE LStrip(_)
LStrip(s) == IF s # << >> /\ Head(s) = " " THEN LStrip(Tail(s)) ELSE s

RECURSIVE RStrip(_)
RStrip(s) ==
    IF s # << >> /\ s[Len(s)] = " " THEN RStrip(SubSeq(s, 1, Len(s) - 1)) ELSE s

strip(s) == RStrip(LStrip(s))

\* str.lower() on the letters the model uses
LowerChar(c) ==
    CASE c = "A" -> "a"
      [] c = "B" -> "b"
      [] c = "C" -> "c"
      [] OTHER -> c

lower(s) == [i \in 1..Len(s) |-> LowerChar(s[i])]

(***************************************************************************)
(* float: IEEE 754 binary64 with round-to-nearest-even, as float(Decimal)  *)
(* and the float + of Python compute it.  A value is sign and magnitude;  *)
(* the magnitude is an integer count of 2^-FracBits in three limbs of      *)
(* LimbBits bits (hi, mid, lo), so every step stays inside TLC's integers. *)
(* Every amount of at least one cent has its 53rd significant bit at or    *)
(* above 2^-59, hence every float the model meets is a whole count of      *)
(* 2^-FracBits.  Magnitudes stay below 2^19, far from overflow and from    *)
(* subnormals.  -0.0 and 0.0, which == does not tell apart, are one value. *)
(***************************************************************************)
Mantissa == 53
LimbBits == 27
FracBits == 60
Limb == 2 ^ LimbBits

RECURSIVE BitLen(_)
BitLen(x) == IF x = 0 THEN 0 ELSE 1 + BitLen(x \div 2)

MagZero == [hi |-> 0, mid |-> 0, lo |-> 0]

MagLen(m) ==
    IF m.hi > 0 THEN 2 * LimbBits + BitLen(m.hi)
    ELSE IF m.mid > 0 THEN LimbBits + BitLen(m.mid)
    ELSE BitLen(m.lo)

\* limbs that may have outgrown LimbBits, carried upwards
Carry(hi, mid, lo) ==
    LET m1 == mid + lo \div Limb
    IN [hi |-> hi + m1 \div Limb, mid |-> m1 % Limb, lo |-> lo % Limb]

MagAdd(a, b) == Carry(a.hi + b.hi, a.mid + b.mid, a.lo + b.lo)

MagLess(a, b) ==
    \/ a.hi < b.hi
    \/ a.hi = b.hi /\ a.mid < b.mid
    \/ a.hi = b.hi /\ a.mid = b.mid /\ a.lo < b.lo

\* a - b for a >= b
MagSub(a, b) ==
    LET lo == a.lo - b.lo
        bl == IF lo < 0 THEN 1 ELSE 0
        mid == a.mid - b.mid - bl
        bm == IF mid < 0 THEN 1 ELSE 0
    IN [hi |-> a.hi - b.hi - bm, mid |-> mid + bm * Limb, lo |-> lo + bl * Limb]

\* the magnitude rounded to Mantissa significant bits, ties to even; sticky
\* says that the exact value lies strictly above the magnitude given
Round(m, sticky) ==
    LET len == MagLen(m) IN
    IF len <= Mantissa THEN m
    ELSE LET k == CHOOSE j \in 1..LimbBits : j = len - Mantissa
             p == 2 ^ k
             low == m.lo % p
             half == p \div 2
             kept == IF k = LimbBits THEN m.mid % 2 ELSE (m.lo \div p) % 2
             up == \/ low > half
                   \/ low = half /\ (sticky \/ kept = 1)
         IN Carry(m.hi, m.mid, m.lo - low + (IF up THEN p ELSE 0))

\* floor(r * 2^9 / 100) and the remainder, for 0 <= r < 100
Div9(r) == [q |-> (r * 512) \div 100, r |-> (r * 512) % 100]

\* floor(r * 2^27 / 100) and the remainder, for 0 <= r < 100
Div27(r) ==
    LET a == Div9(r)
        b == Div9(a.r)
        c == Div9(b.r)
    IN [q |-> (a.q * 512 + b.q) * 512 + c.q, r |-> c.r]

\* float(Decimal) of an amount of c cents: c / 100 correctly rounded
float(c) ==
    LET n == IF c < 0 THEN -c ELSE c
        t == 2 ^ (FracBits - 2 * LimbBits)
        top == [q |-> ((n % 100) * t) \div 100, r |-> ((n % 100) * t) % 100]
        mid == Div27(top.r)
        lo == Div27(mid.r)
        mag == Round([hi |-> (n \div 100) * t + top.q, mid |-> mid.q, lo |-> lo.q],
                     lo.r # 0)
    IN [neg |-> c < 0, mag |-> mag]

FZero == [neg |-> FALSE, mag |-> MagZero]

\* the int 0 that sum() starts from and float 0.0 add alike
FNeg(x) == IF x.mag = MagZero THEN x ELSE [x EXCEPT !.neg = ~x.neg]

\* x + y on floats
FAdd(x, y) ==
    IF x.neg = y.neg
    THEN [neg |-> x.neg, mag |-> Round(MagAdd(x.mag, y.mag), FALSE)]
    ELSE IF x.mag = y.mag THEN FZero
    ELSE IF MagLess(x.mag, y.mag)
    THEN [neg |-> y.neg, mag |-> Round(MagSub(y.mag, x.mag), FALSE)]
    ELSE [neg |-> x.neg, mag |-> Round(MagSub(x.mag, y.mag), FALSE)]

FSub(x, y) == FAdd(x, FNeg(y))

\* sum([...]) of a sequence of floats, the left fold of CPython before 3.12
RECURSIVE sum(_)
sum(s) == IF s = << >> THEN FZero ELSE FAdd(sum(SubSeq(s, 1, Len(s) - 1)), s[Len(s)])

(***************************************************************************)
(* Responses.                                                              *)
(***************************************************************************)
NoSummary == [entree |-> << >>, depense |-> << >>, vente |-> << >>, solde |-> << >>]

\* args, rows, balance and summary are what journal and export_csv answer with
Response(handler, kind, target, flash) ==
    [h |-> handler, kind |-> kind, to |-> target, flash |-> flash,
     args |-> << >>, rows |-> << >>, balance |-> << >>, summary |-> NoSummary]

Redirect(handler, endpoint, flash) == Response(handler, "redirect", endpoint, flash)
Render(handler, template) == Response(handler, "render", template, "")
Abort(handler, code) == Response(handler, "abort", code, "")

(***************************************************************************)
(* User: the role predicates of the model class.                           *)
(***************************************************************************)
Anonymous == 0

is_authenticated(u) == u \in 1..Len(users)

can_edit_any(u) == users[u].role = "admin"
can_edit_own(u) == users[u].role \in {"admin", "editor"}

\* @login_required and @require_roles(*roles): the response of the wrapper
\* when it does not call the handler
login_required(u) == is_authenticated(u)

require_roles(u, roles) == users[u].role \in roles

(***************************************************************************)
(* /register                                                               *)
(***************************************************************************)
\* InviteToken.query.filter_by(token=invite_token, used=False).first()
UnusedInvite(token) ==
    LET hits == {i \in 1..Len(invites) :
                    invites[i].token = token /\ ~invites[i].used}
    IN IF hits = {} THEN 0 ELSE CHOOSE i \in hits : \A j \in hits : i <= j

\* the invite check at the top of register: TRUE when the request is turned away
InviteRefused(it) == it = 0 \/ invites[it].expires_at < now

\* the role of the new row without the test on the number of users
RegisterRole_Token(role) == role

\* the role of the new row
RegisterRole(role) == IF Len(users) = 0 THEN "admin" ELSE role

\* the commit without the assignment to used
MarkUsed_Never(it) == invites

\* the rows of invite_token at the commit of a registration presenting row it
MarkUsed(it) == [invites EXCEPT ![it].used = TRUE]

\* invite = 0: the request has no (or an empty) invite parameter
register(method, invite, rawEmail) ==
    LET it == IF invite # 0 THEN UnusedInvite(invite) ELSE 0
        role == IF invite # 0 /\ it # 0 THEN invites[it].role ELSE "user"
        email == lower(strip(rawEmail))
    IN
    IF invite # 0 /\ InviteRefused(it)
    THEN /\ resp' = Redirect("register", "login", "invalid_invite")
         /\ UNCHANGED <<users, invites, cats, ops, now, redeemed>>
    ELSE IF method = "POST"
    THEN IF \E i \in 1..Len(users) : users[i].email = email
         THEN /\ resp' = Redirect("register", "register", "email_used")
              /\ UNCHANGED <<users, invites, cats, ops, now, redeemed>>
         ELSE /\ users' = Append(users, [email |-> email, role |-> RegisterRole(role)])
              /\ invites' = IF invite # 0 THEN MarkUsed(it) ELSE invites
              /\ redeemed' = IF invite # 0
                             THEN [redeemed EXCEPT ![invite] = @ + 1]
                             ELSE redeemed
              /\ resp' = Redirect("register", "login", "account_created")
              /\ UNCHANGED <<cats, ops, now>>
    ELSE /\ resp' = Render("register", "register.html")
         /\ UNCHANGED <<users, invites, cats, ops, now, redeemed>>

(***************************************************************************)
(* /login: the password check is an input, the hash being opaque           *)
(***************************************************************************)
login(method, rawEmail, passwordOk) ==
    LET email == lower(strip(rawEmail))
        found == \E i \in 1..Len(users) : users[i].email = email
    IN
    /\ resp' = IF method = "POST" /\ found /\ passwordOk
               THEN Redirect("login", "journal", "")
               ELSE IF method = "POST"
               THEN Response("login", "render", "login.html", "bad_credentials")
               ELSE Render("login", "login.html")
    /\ UNCHANGED <<users, invites, cats, ops, now, redeemed>>

(***************************************************************************)
(* /admin/invite/create                                                    *)
(***************************************************************************)
\* the role stored in the token
InviteRole(args) ==
    LET role == Get(args, "role", "viewer")
    IN IF role \notin {"viewer", "editor"} THEN "viewer" ELSE role

\* the expiry stored in the token
InviteExpiry == now + InviteDays

\* uuid4().hex: a token no earlier row holds; the model numbers them
FreshToken == Len(invites) + 1

admin_invite_create(u, args) ==
    IF ~login_required(u)
    THEN /\ resp' = Redirect("admin_invite_create", "login", "")
         /\ UNCHANGED <<users, invites, cats, ops, now, redeemed>>
    ELSE IF ~require_roles(u, {"admin"})
    THEN /\ resp' = Redirect("admin_invite_create", "journal", "refused")
         /\ UNCHANGED <<users, invites, cats, ops, now, redeemed>>
    ELSE /\ invites' = Append(invites,
                [token |-> FreshToken, role |-> InviteRole(args),
                 expires_at |-> InviteExpiry, used |-> FALSE])
         /\ redeemed' = redeemed @@ (FreshToken :> 0)
         /\ resp' = Redirect("admin_invite_create", "admin_users", "invite_created")
         /\ UNCHANGED <<users, cats, ops, now>>

(***************************************************************************)
(* The clock.                                                              *)
(***************************************************************************)
Tick ==
    /\ now' = now + 1
    /\ UNCHANGED <<users, invites, cats, ops, resp, redeemed>>


(***************************************************************************)
(* Operation: parsing and the stored amount.                               *)
(***************************************************************************)
Types == {"entree", "depense", "vente"}

\* parse_date(s, default): s is << >> (None or "") or <<day>>
parse_date(s, default) == IF s = << >> THEN default ELSE s[1]

\* strptime raises ValueError on s
DateError(s) == s # << >> /\ s[1] < 1

\* request.form[k] raises BadRequestKeyError for one of the keys
MissingKey(form, keys) == \E k \in keys : k \notin DOMAIN form

\* the status of the exception that reading type, date and label, in this
\* order, raises, "" when none does
FormError(form) ==
    IF MissingKey(form, {"type", "date"}) THEN "400"
    ELSE IF DateError(form.date) THEN "500"
    ELSE IF MissingKey(form, {"label"}) THEN "400"
    ELSE ""

\* the amount column with the derivation applied whatever the type
NewAmount_AnyType(type, quantity, unit_price, amount) ==
    LET derived == IF amount = << >> /\ quantity # << >> /\ unit_price # << >>
                   THEN <<quantity[1] * unit_price[1]>>
                   ELSE amount
    IN IF derived # << >> THEN derived[1] ELSE 0

\* op_new: the amount column, from the form's type, quantity, unit_price, amount
NewAmount(type, quantity, unit_price, amount) ==
    LET derived == IF /\ type = "vente"
                      /\ amount = << >>
                      /\ quantity # << >>
                      /\ unit_price # << >>
                   THEN <<quantity[1] * unit_price[1]>>
                   ELSE amount
    IN IF derived # << >> THEN derived[1] ELSE 0

\* op_edit: the amount column, from the row's new type, quantity, unit_price
\* and the form's amount
EditAmount(type, quantity, unit_price, amount) ==
    LET derived == IF /\ type = "vente"
                      /\ amount = << >>
                      /\ quantity # << >>
                      /\ unit_price # << >>
                   THEN <<quantity[1] * unit_price[1]>>
                   ELSE amount
    IN IF derived # << >> THEN derived[1] ELSE 0

\* request.form.get("note"): None when the key is not sent
FormNote(form) == IF "note" \in DOMAIN form THEN Some(form.note) ELSE NULL

\* request.form.get("designation") or None
FormDesignation(form) ==
    IF Get(form, "designation", "") = "" THEN NULL ELSE Some(form.designation)

\* the row op_new adds
NewRow(u, form) ==
    [id |-> NextId(ops),
     date |-> parse_date(form.date, now),
     type |-> form.type,
     label |-> form.label,
     note |-> FormNote(form),
     category_id |-> Get(form, "category_id", << >>),
     designation |-> FormDesignation(form),
     quantity |-> Get(form, "quantity", << >>),
     unit_price |-> Get(form, "unit_price", << >>),
     amount |-> NewAmount(form.type, Get(form, "quantity", << >>),
                          Get(form, "unit_price", << >>), Get(form, "amount", << >>)),
     user_id |-> u,
     created_at |-> now]

\* the row an update that keeps what the form omits would leave
EditRow_Partial(op, form) ==
    LET quantity == Get(form, "quantity", op.quantity)
        unit_price == Get(form, "unit_price", op.unit_price)
    IN
    [op EXCEPT
     !.type = form.type,
     !.date = parse_date(form.date, op.date),
     !.label = form.label,
     !.note = IF "note" \in DOMAIN form THEN Some(form.note) ELSE op.note,
     !.category_id = Get(form, "category_id", op.category_id),
     !.designation = IF "designation" \in DOMAIN form
                     THEN FormDesignation(form) ELSE op.designation,
     !.quantity = quantity,
     !.unit_price = unit_price,
     !.amount = EditAmount(form.type, quantity, unit_price,
                           Get(form, "amount", Some(op.amount)))]

\* the row op_edit leaves
EditRow(op, form) ==
    [op EXCEPT
     !.type = form.type,
     !.date = parse_date(form.date, op.date),
     !.label = form.label,
     !.note = FormNote(form),
     !.category_id = Get(form, "category_id", << >>),
     !.designation = FormDesignation(form),
     !.quantity = Get(form, "quantity", << >>),
     !.unit_price = Get(form, "unit_price", << >>),
     !.amount = EditAmount(form.type, Get(form, "quantity", << >>),
                           Get(form, "unit_price", << >>), Get(form, "amount", << >>))]

\* the test without the ownership condition
MayEdit_NoOwner(u, op) == can_edit_any(u) \/ can_edit_own(u)

\* the test op_edit and op_delete make before they touch the row
MayEdit(u, op) == can_edit_any(u) \/ (can_edit_own(u) /\ op.user_id = u)

(***************************************************************************)
(* /operation/new, /operation/<id>/edit, /operation/<id>/delete            *)
(***************************************************************************)
Unchanged == UNCHANGED <<users, invites, cats, ops, now, redeemed>>

op_new(u, method, form) ==
    IF ~login_required(u)
    THEN resp' = Redirect("op_new", "login", "") /\ Unchanged
    ELSE IF ~require_roles(u, {"admin", "editor"})
    THEN resp' = Redirect("op_new", "journal", "refused") /\ Unchanged
    ELSE IF method # "POST"
    THEN resp' = Render("op_new", "form.html") /\ Unchanged
    ELSE IF FormError(form) # ""
    THEN resp' = Abort("op_new", FormError(form)) /\ Unchanged
    ELSE /\ ops' = ops @@ (NextId(ops) :> NewRow(u, form))
         /\ resp' = Redirect("op_new", "journal", "saved")
         /\ UNCHANGED <<users, invites, cats, now, redeemed>>

op_edit(u, op_id, method, form) ==
    IF ~login_required(u)
    THEN resp' = Redirect("op_edit", "login", "") /\ Unchanged
    ELSE IF op_id \notin DOMAIN ops
    THEN resp' = Abort("op_edit", "404") /\ Unchanged
    ELSE IF ~MayEdit(u, ops[op_id])
    THEN resp' = Redirect("op_edit", "journal", "refused") /\ Unchanged
    ELSE IF method # "POST"
    THEN resp' = Render("op_edit", "form.html") /\ Unchanged
    ELSE IF FormError(form) # ""
    THEN resp' = Abort("op_edit", FormError(form)) /\ Unchanged
    ELSE /\ ops' = [ops EXCEPT ![op_id] = EditRow(ops[op_id], form)]
         /\ resp' = Redirect("op_edit", "journal", "updated")
         /\ UNCHANGED <<users, invites, cats, now, redeemed>>

\* the table without row op_id
Without(table, id) == [i \in DOMAIN table \ {id} |-> table[i]]

op_delete(u, op_id) ==
    IF ~login_required(u)
    THEN resp' = Redirect("op_delete", "login", "") /\ Unchanged
    ELSE IF op_id \notin DOMAIN ops
    THEN resp' = Abort("op_delete", "404") /\ Unchanged
    ELSE IF ~MayEdit(u, ops[op_id])
    THEN resp' = Redirect("op_delete", "journal", "refused") /\ Unchanged
    ELSE /\ ops' = Without(ops, op_id)
         /\ resp' = Redirect("op_delete", "journal", "deleted")
         /\ UNCHANGED <<users, invites, cats, now, redeemed>>

(***************************************************************************)
(* /journal and /export/csv: the query, the totals, the running balance.   *)
(***************************************************************************)
\* order_by(Operation.date.asc(), Operation.id.asc()) on a set of rows
RECURSIVE OrderByDateId(_)
OrderByDateId(S) ==
    IF S = {} THEN << >>
    ELSE LET first == CHOOSE r \in S : \A q \in S :
                          r.date < q.date \/ (r.date = q.date /\ r.id <= q.id)
         IN <<first>> \o OrderByDateId(S \ {first})

AllRows == {ops[i] : i \in DOMAIN ops}

\* the filters with the end date as an exclusive bound
Filtered_ExclusiveEnd(args) ==
    LET type_filter == Get(args, "type", "")
        start == Get(args, "start", << >>)
        end == Get(args, "end", << >>)
        category == Get(args, "category", << >>)
        Keep(o) == /\ type_filter \in Types => o.type = type_filter
                   /\ start # << >> => o.date >= start[1]
                   /\ end # << >> => o.date < end[1]
                   /\ category # << >> => o.category_id = category
    IN SelectSeq(OrderByDateId(AllRows), Keep)

\* the filters of journal, which export_csv repeats word for word
Filtered(args) ==
    LET type_filter == Get(args, "type", "")
        start == Get(args, "start", << >>)
        end == Get(args, "end", << >>)
        category == Get(args, "category", << >>)
        Keep(o) == /\ type_filter \in Types => o.type = type_filter
                   /\ start # << >> => o.date >= start[1]
                   /\ end # << >> => o.date <= end[1]
                   /\ category # << >> => o.category_id = category
    IN SelectSeq(OrderByDateId(AllRows), Keep)

\* parse_date raises on the start or the end parameter
ArgsError(args) ==
    DateError(Get(args, "start", << >>)) \/ DateError(Get(args, "end", << >>))

\* [float(o.amount) for o in rows if o.type == type]
RECURSIVE AmountsOf(_, _)
AmountsOf(rows, type) ==
    IF rows = << >> THEN << >>
    ELSE LET o == rows[Len(rows)]
             rest == AmountsOf(SubSeq(rows, 1, Len(rows) - 1), type)
         IN IF o.type = type THEN Append(rest, float(o.amount)) ELSE rest

totals(rows) ==
    LET entree == sum(AmountsOf(rows, "entree"))
        depense == sum(AmountsOf(rows, "depense"))
        vente == sum(AmountsOf(rows, "vente"))
    IN [entree |-> entree, depense |-> depense, vente |-> vente,
        solde |-> FSub(FAdd(entree, vente), depense)]

\* the delta of one row in journal's loop
Delta(o) ==
    IF o.type \in {"entree", "vente"} THEN float(o.amount) ELSE FNeg(float(o.amount))

\* the value of running after the first n rows
RECURSIVE Running(_, _)
Running(rows, n) == IF n = 0 THEN FZero ELSE FAdd(Running(rows, n - 1), Delta(rows[n]))

\* the list balance that journal builds
Balance(rows) == [i \in 1..Len(rows) |-> Running(rows, i)]

journal(u, args) ==
    /\ resp' = IF ~login_required(u) THEN Redirect("journal", "login", "")
               ELSE IF ArgsError(args) THEN Abort("journal", "500")
               ELSE LET rows == Filtered(args)
                    IN [Render("journal", "journal.html") EXCEPT
                        !.args = args,
                        !.rows = rows,
                        !.balance = Balance(rows),
                        !.summary = totals(rows)]
    /\ Unchanged

export_csv(u, args) ==
    /\ resp' = IF ~login_required(u) THEN Redirect("export_csv", "login", "")
               ELSE IF ArgsError(args) THEN Abort("export_csv", "500")
               ELSE [Response("export_csv", "file", "journal.csv", "") EXCEPT
                     !.args = args,
                     !.rows = Filtered(args)]
    /\ Unchanged

(***************************************************************************)
(* /categories and /categories/<id>/delete                                 *)
(***************************************************************************)
\* Category.query.filter_by(name=name).first() finds a row
NameTaken(name) == \E i \in DOMAIN cats : cats[i] = name

\* the test without the lookup of the name
MayAddCategory_NoLookup(name) == name # << >>

\* the test that lets categories add the stripped name
MayAddCategory(name) == name # << >> /\ ~NameTaken(name)

categories(u, method, form) ==
    IF ~login_required(u)
    THEN resp' = Redirect("categories", "login", "") /\ Unchanged
    ELSE IF ~require_roles(u, {"admin"})
    THEN resp' = Redirect("categories", "journal", "refused") /\ Unchanged
    ELSE IF method # "POST"
    THEN resp' = Render("categories", "categories.html") /\ Unchanged
    ELSE IF MissingKey(form, {"name"})
    THEN resp' = Abort("categories", "400") /\ Unchanged
    ELSE IF MayAddCategory(strip(form.name))
    THEN /\ cats' = cats @@ (NextId(cats) :> strip(form.name))
         /\ resp' = Redirect("categories", "categories", "added")
         /\ UNCHANGED <<users, invites, ops, now, redeemed>>
    ELSE resp' = Redirect("categories", "categories", "empty_or_exists") /\ Unchanged

\* the rows of operation once category cat_id is deleted: the relationship
\* Category.ops has no delete cascade, so the ORM sets their category_id to NULL
Orphaned(cat_id) ==
    [i \in DOMAIN ops |->
        IF ops[i].category_id = Some(cat_id)
        THEN [ops[i] EXCEPT !.category_id = NULL]
        ELSE ops[i]]

category_delete(u, cat_id) ==
    IF ~login_required(u)
    THEN resp' = Redirect("category_delete", "login", "") /\ Unchanged
    ELSE IF ~require_roles(u, {"admin"})
    THEN resp' = Redirect("category_delete", "journal", "refused") /\ Unchanged
    ELSE IF cat_id \notin DOMAIN cats
    THEN resp' = Abort("category_delete", "404") /\ Unchanged
    ELSE /\ cats' = Without(cats, cat_id)
         /\ ops' = Orphaned(cat_id)
         /\ resp' = Redirect("category_delete", "categories", "deleted")
         /\ UNCHANGED <<users, invites, now, redeemed>>

(***************************************************************************)
(* Inputs of the requests.                                                 *)
(***************************************************************************)
Methods == {"GET", "POST"}

\* the session cookie of a request: a registered user's, or none
Actors == {Anonymous} \cup (1..Len(users))

RawEmails == {<<" ", "A">>, <<"b">>, <<"c">>}

\* the tokens a request may present: each one issued, and one never issued
Tokens == 1..(Len(invites) + 1)

InviteArgs == {<< >>, [role |-> "editor"], [role |-> "admin"]}

\* the ids a request may name: each one in use, and the next one
IdsOf(table) == 1..NextId(table)

(***************************************************************************)
(* Spec: registration and invitations, from the empty database.            *)
(***************************************************************************)
Init ==
    /\ users = << >>
    /\ invites = << >>
    /\ cats = << >>
    /\ ops = << >>
    /\ now = 1
    /\ resp = Render("index", "")
    /\ redeemed = << >>

\* the bounds, on the state a step leads to
Within ==
    /\ Len(users') <= MaxUsers
    /\ Len(invites') <= MaxInvites
    /\ now' <= MaxNow

\* a GET carries no form, a POST carries an e-mail
RegisterRequests == {<<"GET", << >>>>} \cup {<<"POST", e>> : e \in RawEmails}

Register ==
    \E r \in RegisterRequests, t \in {0} \cup Tokens :
        register(r[1], t, r[2]) /\ Within

InviteCreate == \E u \in Actors, a \in InviteArgs : admin_invite_create(u, a) /\ Within

Clock == Tick /\ Within

Next == Register \/ InviteCreate \/ Clock

Spec == Init /\ [][Next]_vars

(***************************************************************************)
(* A database with one user of each role, as four registrations on day 1   *)
(* leave it: a without invite, b and c with the tokens 1 and 2 that a      *)
(* issued, d without invite.                                               *)
(***************************************************************************)
SeedUsers ==
    << [email |-> <<"a">>, role |-> "admin"],
       [email |-> <<"b">>, role |-> "editor"],
       [email |-> <<"c">>, role |-> "viewer"],
       [email |-> <<"d">>, role |-> "user"] >>

SeedInvites ==
    << [token |-> 1, role |-> "editor", expires_at |-> 1 + InviteDays, used |-> TRUE],
       [token |-> 2, role |-> "viewer", expires_at |-> 1 + InviteDays, used |-> TRUE] >>

InitSeed ==
    /\ users = SeedUsers
    /\ invites = SeedInvites
    /\ cats = << >>
    /\ ops = << >>
    /\ now = 1
    /\ resp = Render("index", "")
    /\ redeemed = <<1, 1>>

\* the bounds, on the state a step leads to
WithinSeed ==
    /\ Len(invites') <= Len(SeedInvites) + MaxInvites
    /\ \A i \in DOMAIN ops' : i <= MaxOps
    /\ \A i \in DOMAIN cats' : i <= MaxCats

(***************************************************************************)
(* SpecGate: every role-gated handler that writes, called by every actor.  *)
(***************************************************************************)
GateNewForm == [type |-> "entree", date |-> << >>, label |-> "l", amount |-> <<10>>]
GateEditForm == [type |-> "depense", date |-> << >>, label |-> "l", amount |-> <<30>>]

GateCatForm == [name |-> <<"a">>]

GateNew == \E u \in Actors : op_new(u, "POST", GateNewForm) /\ WithinSeed

GateEdit ==
    \E u \in Actors, i \in IdsOf(ops) :
        op_edit(u, i, "POST", GateEditForm) /\ WithinSeed

GateDelete == \E u \in Actors, i \in IdsOf(ops) : op_delete(u, i) /\ WithinSeed

GateCategories == \E u \in Actors : categories(u, "POST", GateCatForm) /\ WithinSeed

GateCategoryDelete ==
    \E u \in Actors, i \in IdsOf(cats) : category_delete(u, i) /\ WithinSeed

GateInvite ==
    \E u \in Actors, a \in {<< >>, [role |-> "editor"]} :
        admin_invite_create(u, a) /\ WithinSeed

NextGate ==
    \/ GateNew
    \/ GateEdit
    \/ GateDelete
    \/ GateCategories
    \/ GateCategoryDelete
    \/ GateInvite

SpecGate == InitSeed /\ [][NextGate]_vars

(***************************************************************************)
(* SpecLedger: the journal kept by the editor b.                           *)
(***************************************************************************)
Bookkeeper == 2

\* a sale of 3 at 0.10, the amount left to the derivation
SaleDerived ==
    [type |-> "vente", date |-> <<3>>, label |-> "l", amount |-> << >>,
     quantity |-> <<3>>, unit_price |-> <<10>>, designation |-> "d",
     category_id |-> <<1>>]
\* a sale of 3 at 1500.00 with the amount 9999.00 typed in
SaleExplicit ==
    [type |-> "vente", date |-> <<1>>, label |-> "l", amount |-> <<999900>>,
     quantity |-> <<3>>, unit_price |-> <<150000>>]
CashIn == [type |-> "entree", date |-> << >>, label |-> "l", amount |-> <<10>>, note |-> "n"]
\* a payment with a quantity and a unit price as a remark
CashOut ==
    [type |-> "depense", date |-> <<2>>, label |-> "l", amount |-> <<10>>,
     quantity |-> <<3>>, unit_price |-> <<150000>>, category_id |-> <<1>>]
OtherType == [type |-> "autre", date |-> <<2>>, label |-> "l", amount |-> <<20>>]
BadDate == [type |-> "entree", date |-> <<0>>, label |-> "l", amount |-> <<10>>]
NoLabel == [type |-> "entree", date |-> <<1>>]
\* type, date and label only, the date blank
Bare == [type |-> "vente", date |-> << >>, label |-> "l"]
\* a sale of 3 at 1500.00, the amount left to the derivation
SaleAt1500 ==
    [type |-> "vente", date |-> <<3>>, label |-> "l",
     quantity |-> <<3>>, unit_price |-> <<150000>>]

\* a receipt with a quantity and a unit price as a remark, and no amount
Remark ==
    [type |-> "entree", date |-> <<2>>, label |-> "l",
     quantity |-> <<3>>, unit_price |-> <<150000>>]

NewForms ==
    {SaleDerived, SaleAt1500, SaleExplicit, CashIn, CashOut, Remark, OtherType,
     BadDate, NoLabel}
EditForms ==
    {Bare, SaleAt1500, SaleExplicit, CashOut, Remark, OtherType, BadDate, NoLabel}

\* a GET carries no form
Requests(forms) == {<<"GET", << >>>>} \cup {<<"POST", f>> : f \in forms}

JournalArgs ==
    { << >>,
      [type |-> "depense", start |-> <<1>>, end |-> <<2>>],
      [start |-> <<2>>, end |-> <<2>>],
      [category |-> <<1>>],
      [type |-> "tout", start |-> << >>],
      [start |-> <<0>>] }

LedgerNew == \E r \in Requests(NewForms) : op_new(Bookkeeper, r[1], r[2]) /\ WithinSeed

LedgerEdit ==
    \E i \in IdsOf(ops), r \in Requests(EditForms) :
        op_edit(Bookkeeper, i, r[1], r[2]) /\ WithinSeed

LedgerDelete == \E i \in IdsOf(ops) : op_delete(Bookkeeper, i) /\ WithinSeed

LedgerJournal == \E a \in JournalArgs : journal(Bookkeeper, a) /\ WithinSeed

LedgerExport == \E a \in JournalArgs : export_csv(Bookkeeper, a) /\ WithinSeed

NextLedger ==
    \/ LedgerNew
    \/ LedgerEdit
    \/ LedgerDelete
    \/ LedgerJournal
    \/ LedgerExport

SpecLedger == InitSeed /\ [][NextLedger]_vars

(***************************************************************************)
(* SpecCat: the category registry kept by the admin a, and the entries     *)
(* that refer to it.                                                       *)
(***************************************************************************)
Admin == 1

RawNames ==
    { << >>, <<" ">>, <<"a">>, <<" ", "a", " ">>, <<"A">>, <<"a", " ", "b">> }
CatForms == { << >> } \cup { [name |-> n] : n \in RawNames }

CatCreate == \E m \in Methods, f \in CatForms : categories(Admin, m, f) /\ WithinSeed

CatDelete == \E i \in IdsOf(cats) : category_delete(Admin, i) /\ WithinSeed

CatNew == \E f \in {CashIn, CashOut} : op_new(Admin, "POST", f) /\ WithinSeed

NextCat == CatCreate \/ CatDelete \/ CatNew

SpecCat == InitSeed /\ [][NextCat]_vars

(***************************************************************************)
(* The claims.                                                             *)
(***************************************************************************)
\* the decision table of the authorization gate: may a user of this role do
\* this to an entry that is (own) or is not his own
TableAllows(role, action, own) ==
    CASE action = "create" -> role \in {"admin", "editor"}
      [] action \in {"edit", "delete"} -> role = "admin" \/ (role = "editor" /\ own)
      [] action \in {"category", "invite"} -> role = "admin"

\* a request turned away: nothing stored changes, the answer is a redirect
\* to the journal
Refused ==
    /\ UNCHANGED <<users, invites, cats, ops>>
    /\ resp'.kind = "redirect"
    /\ resp'.to = "journal"

\* C1: whatever the role of the logged-in user, a request the decision table
\* denies (create by viewer or user; edit or delete by viewer, user, or by an
\* editor on an entry of another user; category or invite management by anyone
\* but admin) changes no table and is answered by a redirect to the journal;
\* a delete the table allows removes the entry.
C1_DeniedIsRefused ==
    [][\A u \in 1..Len(users) :
         LET role == users[u].role IN
         /\ resp'.h = "op_new" =>
              (~TableAllows(role, "create", FALSE) /\ op_new(u, "POST", GateNewForm)
                  => Refused)
         /\ resp'.h = "op_edit" =>
              \A i \in DOMAIN ops :
                 ~TableAllows(role, "edit", ops[i].user_id = u)
                     /\ op_edit(u, i, "POST", GateEditForm)
                     => Refused
         /\ resp'.h = "op_delete" =>
              \A i \in DOMAIN ops :
                 /\ ~TableAllows(role, "delete", ops[i].user_id = u)
                       /\ op_delete(u, i)
                       => Refused
                 /\ TableAllows(role, "delete", ops[i].user_id = u)
                       /\ op_delete(u, i)
                       => i \notin DOMAIN ops'
         /\ resp'.h = "categories" =>
              (~TableAllows(role, "category", FALSE)
                  /\ categories(u, "POST", GateCatForm)
                  => Refused)
         /\ resp'.h = "category_delete" =>
              \A i \in IdsOf(cats) :
                 ~TableAllows(role, "category", FALSE) /\ category_delete(u, i)
                     => Refused
         /\ resp'.h = "admin_invite_create" =>
              \A a \in InviteArgs :
                 ~TableAllows(role, "invite", FALSE) /\ admin_invite_create(u, a)
                     => Refused
      ]_vars

\* C1 witness: an entry of the admin and an entry of the editor are stored,
\* and the last request, a delete, was turned away
C1_Witness ==
    /\ resp = Redirect("op_delete", "journal", "refused")
    /\ \E i, j \in DOMAIN ops : ops[i].user_id = 1 /\ ops[j].user_id = 2

\* the invite row holding token t (tokens are numbered in the order of issue)
Issued(t) == t \in 1..Len(invites)

\* a registration that is turned away: no user, no change to any token
Rejected ==
    /\ UNCHANGED <<users, invites, redeemed>>
    /\ resp' = Redirect("register", "login", "invalid_invite")

\* C2: at most one user is ever created through a given invite token; a
\* token is used exactly when one user was created through it, the step that
\* creates the user is the step that sets used, used never goes back to
\* false, and every registration presenting a used token is turned away and
\* creates no user.
C2_ExactlyOnce ==
    /\ [](\A t \in 1..Len(invites) :
             /\ redeemed[t] <= 1
             /\ invites[t].used <=> redeemed[t] = 1)
    /\ [][/\ Len(invites') >= Len(invites)
          /\ \A t \in 1..Len(invites) : invites[t].used => invites'[t].used
          /\ resp'.h = "register" =>
               \A t \in 1..Len(invites) :
                  invites[t].used /\ ~Rejected =>
                     /\ ~register("GET", t, << >>)
                     /\ \A e \in RawEmails : ~register("POST", t, e)
          /\ users' # users =>
               \A t \in 1..Len(invites), e \in RawEmails :
                  register("POST", t, e) =>
                     /\ Len(users') = Len(users) + 1
                     /\ ~invites[t].used
                     /\ invites'[t].used
         ]_vars

\* C2 witness: a user was created through token 1, which is used, and the
\* last registration request was turned away for its invite
C2_Witness ==
    /\ Len(invites) >= 1
    /\ invites[1].used
    /\ redeemed[1] = 1
    /\ Len(users) >= 2
    /\ resp = Redirect("register", "login", "invalid_invite")

\* C3: a token issued at time t expires at t + 7 days, and a registration
\* that presents a token at or after its expiry (now >= expires_at), or a
\* used token, or a token never issued, is turned away: no user is created
\* and no used flag changes.
C3_ExpiredIsRejected ==
    [][/\ admin_invite_create(1, << >>) /\ Len(invites') > Len(invites)
           => invites'[Len(invites')].expires_at = now + InviteDays
       /\ resp'.h = "register" =>
            \A m \in Methods, t \in Tokens, e \in RawEmails :
               /\ register(m, t, e)
               /\ (~Issued(t) \/ invites[t].used \/ now >= invites[t].expires_at)
               => Rejected
      ]_vars

\* the role a registration presenting token t (0: none) is promised
PromisedRole(t) == IF t = 0 THEN "user" ELSE invites[t].role

\* C4: a user is admin exactly when he is the first user registered; every
\* token carries viewer or editor, a request for any other role being stored
\* as viewer; the first registration yields admin and marks the token it
\* presents used; every later registration yields the role of its token,
\* or user when it presents none.
C4_AdminIsFirst ==
    /\ [](/\ \A i \in 1..Len(users) : users[i].role = "admin" <=> i = 1
          /\ \A t \in 1..Len(invites) : invites[t].role \in {"viewer", "editor"})
    /\ [][/\ invites' # invites /\ resp'.h = "admin_invite_create" =>
               \A u \in Actors, a \in InviteArgs :
                  admin_invite_create(u, a) =>
                     invites'[Len(invites')].role =
                        IF Get(a, "role", "") = "editor" THEN "editor" ELSE "viewer"
          /\ users' # users =>
               \A t \in {0} \cup (1..Len(invites)), e \in RawEmails :
                  register("POST", t, e) =>
                     /\ users'[Len(users')].role =
                           IF Len(users) = 0 THEN "admin" ELSE PromisedRole(t)
                     /\ t # 0 => invites'[t].used
         ]_vars

\* C4 witness: the first user is admin, the second registered with a token
\* for editor and is editor, the third presented no token and is user
C4_Witness ==
    /\ Len(users) = 3
    /\ users[1].role = "admin"
    /\ users[2].role = "editor"
    /\ users[3].role = "user"
    /\ \E t \in 1..Len(invites) : invites[t].role = "editor" /\ invites[t].used

\* the last response is the journal page for the request with parameters a
JournalPage(a) == resp.h = "journal" /\ resp.kind = "render" /\ resp.args = a

\* C5: whenever the unfiltered journal lists at least one entry, the balance
\* of its summary (entree total + vente total - depense total) equals the
\* last element of the running balance over the same entries.
C5_SummaryIsLastBalance ==
    JournalPage(<< >>) /\ resp.rows # << >>
        => resp.summary.solde = resp.balance[Len(resp.balance)]

\* the step is a POST of form to op_new or to op_edit by the bookkeeper
Posted(form) ==
    \/ op_new(Bookkeeper, "POST", form)
    \/ \E i \in DOMAIN ops : op_edit(Bookkeeper, i, "POST", form)

\* C6: a create or an update whose type is none of entree, depense, vente
\* fails with an error and writes nothing, and every stored entry has one of
\* the three types.
C6_TypeIsValidated ==
    [][/\ resp'.h \in {"op_new", "op_edit"} =>
            \A f \in NewForms \cup EditForms :
               ("type" \in DOMAIN f /\ f.type \notin Types) /\ Posted(f)
                  => ops' = ops /\ resp'.kind = "abort"
       /\ \A i \in DOMAIN ops' : ops'[i].type \in Types
      ]_vars

\* the step is a successful POST of form to op_edit on entry i
Updated(i, form) ==
    /\ op_edit(Bookkeeper, i, "POST", form)
    /\ resp' = Redirect("op_edit", "journal", "updated")

\* the value of an optional field after a partial update: the form's when the
\* form carries the field, the entry's otherwise
Merged(op, form, k) == IF k \in DOMAIN form THEN form[k] ELSE op[k]

\* the amount decided from quantity q, unit price p and amount a
Decided(type, q, p, a) ==
    IF a # NULL THEN a[1]
    ELSE IF type = "vente" /\ q # NULL /\ p # NULL THEN q[1] * p[1]
    ELSE 0

Sent(form, k) == IF k \in DOMAIN form THEN form[k] ELSE NULL

AmountRule(f, o) ==
    LET a == Sent(f, "amount")
        q == Sent(f, "quantity")
        p == Sent(f, "unit_price")
    IN /\ f.type = "vente" /\ a # NULL => o.amount = a[1]
       /\ f.type = "vente" /\ a = NULL /\ q # NULL /\ p # NULL
             => o.amount = q[1] * p[1]
       /\ f.type \in {"entree", "depense"}
             => o.amount = IF a # NULL THEN a[1] ELSE 0

\* C8: on create and on update the amount of a vente is the amount supplied
\* whenever one is supplied, and quantity x unit_price when none is supplied
\* and both are present; the amount of an entree or a depense is the amount
\* supplied, or 0, whatever the quantity and the unit price.
C8_AmountDerivation ==
    [][/\ resp' = Redirect("op_new", "journal", "saved") =>
            \A f \in NewForms :
               op_new(Bookkeeper, "POST", f) => AmountRule(f, ops'[NextId(ops)])
       /\ resp' = Redirect("op_edit", "journal", "updated") =>
            \A i \in DOMAIN ops, f \in EditForms :
               Updated(i, f) => AmountRule(f, ops'[i])
      ]_vars

\* C8 witness: a sale of 3 at 1500.00 stands at 4500.00, and an entree with
\* quantity 3 and unit price 1500.00 and no amount stands at 0
C8_Witness ==
    /\ resp.h \in {"op_new", "op_edit"}
    /\ \E i, j \in DOMAIN ops :
          /\ ops[i].type = "vente"
          /\ ops[i].quantity = <<3>> /\ ops[i].unit_price = <<150000>>
          /\ ops[i].amount = 450000
          /\ ops[j].type = "entree"
          /\ ops[j].quantity = <<3>> /\ ops[j].unit_price = <<150000>>
          /\ ops[j].amount = 0

\* entry o satisfies every condition that the parameters a supply; a type
\* that names none of the three types is no condition
Satisfies(o, a) ==
    /\ ("type" \in DOMAIN a /\ a.type \in Types) => o.type = a.type
    /\ ("start" \in DOMAIN a /\ a.start # << >>) => a.start[1] <= o.date
    /\ ("end" \in DOMAIN a /\ a.end # << >>) => o.date <= a.end[1]
    /\ ("category" \in DOMAIN a /\ a.category # << >>) => o.category_id = a.category

\* C9: the journal, and the export, list exactly the stored entries that
\* satisfy all the supplied conditions, start and end being inclusive, each
\* entry once, by ascending date and then ascending identifier.
C9_ExactlyTheMatching ==
    (resp.h \in {"journal", "export_csv"} /\ resp.kind \in {"render", "file"}) =>
        LET rows == resp.rows IN
        /\ {rows[k] : k \in 1..Len(rows)} = {o \in AllRows : Satisfies(o, resp.args)}
        /\ \A k \in 1..(Len(rows) - 1) :
              \/ rows[k].date < rows[k + 1].date
              \/ rows[k].date = rows[k + 1].date /\ rows[k].id < rows[k + 1].id

\* C9 witness: the journal for the days 2 to 2 lists an entry of day 2 and
\* leaves out a stored entry
C9_Witness ==
    /\ JournalPage([start |-> <<2>>, end |-> <<2>>])
    /\ Len(resp.rows) = 1
    /\ resp.rows[1].date = 2
    /\ Cardinality(DOMAIN ops) = 2

\* the step is a POST of raw name n to categories by the administrator
NamePosted(n) == categories(Admin, "POST", [name |-> n])

\* C10: no two categories have the same name and none has an empty name or
\* a name with a blank at either end; a create whose trimmed name is empty
\* or is the name of a category leaves the categories unchanged, and any
\* other create adds one category with the trimmed name.
C10_UniqueNames ==
    /\ [](\A i \in DOMAIN cats :
             /\ cats[i] # << >>
             /\ cats[i][1] # " " /\ cats[i][Len(cats[i])] # " "
             /\ \A j \in DOMAIN cats : cats[i] = cats[j] => i = j)
    /\ [][resp'.h = "categories" =>
            \A n \in RawNames : NamePosted(n) =>
               LET name == strip(n) IN
               IF name = << >> \/ \E i \in DOMAIN cats : cats[i] = name
               THEN cats' = cats /\ resp'.flash = "empty_or_exists"
               ELSE /\ Cardinality(DOMAIN cats') = Cardinality(DOMAIN cats) + 1
                    /\ \A i \in DOMAIN cats : i \in DOMAIN cats' /\ cats'[i] = cats[i]
                    /\ \E i \in DOMAIN cats' \ DOMAIN cats : cats'[i] = name
         ]_vars

\* C10 witness: the categories a and A stand side by side, and the last
\* create was turned away
C10_Witness ==
    /\ \E i, j \in DOMAIN cats : cats[i] = <<"a">> /\ cats[j] = <<"A">>
    /\ resp = Redirect("categories", "categories", "empty_or_exists")

====
